---- MODULE Spec2Model ----
(***************************************************************************)
(* A model of hassio/addons/data.py: class AddonsData, the store of addon  *)
(* definitions (the catalog built by a scan of the addon repositories) and *)
(* of the installed state (a frozen system half and a user half for every  *)
(* installed addon), with the document it persists.                        *)
(*                                                                         *)
(* Python dicts are functions; a missing key is a value outside DOMAIN.    *)
(* An exception raised by a handler ends the handler where it is raised:   *)
(* what the handler assigned before that point stays assigned.             *)
(***************************************************************************)
EXTENDS Integers, Sequences, FiniteSets, TLC

VARIABLES
    system_data,        \* self._system_data: addon -> frozen definition
    user_data,          \* self._user_data: addon -> {options, version[, boot]}
    saved,              \* the persisted state document (FILE_HASSIO_ADDONS)
    addons_cache,       \* self._addons_cache: the catalog of the last scan
    repositories_data,  \* self._repositories_data: repository -> record
    fs,                 \* the file system the scans read
    options_files,      \* addon -> its runtime options document on disk
    log,                \* the warnings the last call logged
    lastOp,             \* the last call: its name, arguments and outcome
    pre,                \* the store as it was before the last install, while the last call
                        \* is that install or the uninstall that undoes it
    clean               \* the store the calls that returned normally would alone have built

vars == <<system_data, user_data, saved, addons_cache, repositories_data,
          fs, options_files, log, lastOp, pre, clean>>

----------------------------------------------------------------------------
(* Bounds of the model. *)

\* versions are "v1" .. "v<MaxVersion>"
MaxVersion == 2

\* a scanned folder holds at most MaxFiles config.json files
MaxFiles == 2

----------------------------------------------------------------------------
(* Constants of the program. *)

SYSTEM == "system"
USER == "user"
REPOSITORY_CORE == "core"
REPOSITORY_LOCAL == "local"

ATTR_NAME == "name"
ATTR_VERSION == "version"
ATTR_SLUG == "slug"
ATTR_STARTUP == "startup"
ATTR_BOOT == "boot"
ATTR_OPTIONS == "options"
ATTR_REPOSITORY == "repository"
ATTR_LOCATON == "location"
BOOT_AUTO == "auto"
ATTR_DESCRIPTON == "description"
ATTR_URL == "url"
ATTR_ARCH == "arch"
ATTR_SCHEMA == "schema"

\* Python's None
None == "None"

----------------------------------------------------------------------------
(* Python dicts. *)

EmptyDict == [k \in {} |-> 0]

\* d[k] = v
DictSet(d, k, v) == (k :> v) @@ d

\* d.pop(k, None)
DictPop(d, k) == [x \in (DOMAIN d) \ {k} |-> d[x]]

\* d.get(k, default)
DictGet(d, k, default) == IF k \in DOMAIN d THEN d[k] ELSE default

\* copy.deepcopy(x): an equal value that shares nothing with x. Values here
\* are immutable, and no handler of the class mutates a definition in place,
\* so the copy is the value.
deepcopy(x) == x

----------------------------------------------------------------------------
(* The inputs of a scan: what the file system holds.                       *)

Versions == {"v" \o ToString(i) : i \in 1..MaxVersion}

Slugs == {"a", "b"}

\* The content of a config.json that passes SCHEMA_ADDON_CONFIG. rev tells
\* two definitions of the same slug and version apart: rev 2 is rev 1 with
\* another name, description, list of architectures and default boot policy,
\* one more option (default and type), the type int instead of str for the
\* option level, and a url, which rev 1 leaves out.
\* Option values are written as their JSON text.
AddonConfig(slug, version, rev) ==
    LET config ==
          [slug |-> slug,
           name |-> "addon " \o slug \o " rev " \o ToString(rev),
           description |-> "description rev " \o ToString(rev),
           version |-> version,
           arch |-> IF rev = 1 THEN {"amd64"} ELSE {"amd64", "armhf"},
           startup |-> "application",
           boot |-> IF rev = 1 THEN BOOT_AUTO ELSE "manual",
           options |-> IF rev = 1 THEN [host |-> "h", level |-> "1"]
                                  ELSE [host |-> "h", level |-> "1", port |-> "80"],
           schema |-> IF rev = 1 THEN [host |-> "str", level |-> "str"]
                                 ELSE [host |-> "str", level |-> "int", port |-> "int"]]
    IN  IF rev = 1 THEN config ELSE DictSet(config, ATTR_URL, "https://" \o slug)

\* What read_json_file and the schema make of a file:
\*   "ok"      read, parsed and valid (content is what the schema returns)
\*   "oserror" missing or unreadable: read_json_file raises OSError
\*   "decode"  not JSON: read_json_file raises json.JSONDecodeError
\*   "schema"  parsed, but the schema raises vol.Invalid
FileKinds == {"ok", "oserror", "decode", "schema"}

BadFile(kind) == [kind |-> kind]
GoodFile(cfg) == [kind |-> "ok", content |-> cfg]

\* the listings of a folder: the config.json files path.glob yields, in order
Folders(files, n) == UNION {[1..k -> files] : k \in 0..n}

\* the content of a valid repository.json
RepositoryConfig(slug) ==
    [name |-> "repository " \o slug, url |-> "https://" \o slug,
     maintainer |-> "m"]

\* the record built-in.json holds for a built-in repository
BuiltinData(repository) ==
    [slug |-> repository, name |-> "built-in " \o repository]

----------------------------------------------------------------------------
(* The scan. A scan in progress is a record: the catalog and the registry  *)
(* built so far, the warnings logged so far, and the exception that ended  *)
(* it (NoError while it runs).                                             *)

NoError == "none"

ScanStart == [cache |-> EmptyDict, repos |-> EmptyDict, log |-> {},
              raised |-> NoError]

\* str(addon.parent) of the i-th config.json found under path
Location(path, i) == path \o "/" \o ToString(i)

\* "{}_{}".format(repository, addon_config[ATTR_SLUG])
AddonSlug(repository, slug) == repository \o "_" \o slug

\* A faulty turn of the loop of _read_addons_folder: OSError is not caught.
ReadAddonFile_oserror_uncaught(st, path, repository, i, file) ==
    CASE file.kind = "oserror" ->
            [st EXCEPT !.raised = "OSError"]
      [] file.kind = "decode" ->
            [st EXCEPT !.raised = "JSONDecodeError"]
      [] file.kind = "schema" ->
            [st EXCEPT !.log = @ \cup {<<"Can't read (invalid)", Location(path, i)>>}]
      [] OTHER ->
            LET addon_config == file.content
                addon_slug == AddonSlug(repository, addon_config[ATTR_SLUG])
                stored == DictSet(DictSet(addon_config, ATTR_REPOSITORY, repository),
                                  ATTR_LOCATON, Location(path, i))
            IN  [st EXCEPT !.cache = DictSet(@, addon_slug, stored)]

\* One turn of the loop of _read_addons_folder: the try block on one file.
ReadAddonFile(st, path, repository, i, file) ==
    CASE file.kind = "oserror" ->
            [st EXCEPT !.log = @ \cup {<<"Can't read", Location(path, i)>>}]
      [] file.kind = "decode" ->
            \* neither except clause catches json.JSONDecodeError
            [st EXCEPT !.raised = "JSONDecodeError"]
      [] file.kind = "schema" ->
            [st EXCEPT !.log = @ \cup {<<"Can't read (invalid)", Location(path, i)>>}]
      [] OTHER ->
            LET addon_config == file.content
                addon_slug == AddonSlug(repository, addon_config[ATTR_SLUG])
                stored == DictSet(DictSet(addon_config, ATTR_REPOSITORY, repository),
                                  ATTR_LOCATON, Location(path, i))
            IN  [st EXCEPT !.cache = DictSet(@, addon_slug, stored)]

RECURSIVE ReadAddonsFrom(_, _, _, _, _)
ReadAddonsFrom(st, path, repository, files, i) ==
    IF i > Len(files) \/ st.raised # NoError
    THEN st
    ELSE ReadAddonsFrom(ReadAddonFile(st, path, repository, i, files[i]),
                        path, repository, files, i + 1)

\* _read_addons_folder(path, repository), files being what the glob yields
read_addons_folder(st, path, repository, files) ==
    ReadAddonsFrom(st, path, repository, files, 1)

\* A faulty _set_builtin_repositories: both built-in records are added
\* whatever the catalog holds.
set_builtin_repositories_always(st, builtin) ==
    IF builtin # "ok"
    THEN [st EXCEPT !.log = @ \cup {<<"Can't read built-in.json", builtin>>}]
    ELSE [st EXCEPT !.repos =
            DictSet(DictSet(@, REPOSITORY_CORE, BuiltinData(REPOSITORY_CORE)),
                    REPOSITORY_LOCAL, BuiltinData(REPOSITORY_LOCAL))]

\* _set_builtin_repositories(), builtin being what reading built-in.json gives
set_builtin_repositories(st, builtin) ==
    IF builtin # "ok"
    THEN [st EXCEPT !.log = @ \cup {<<"Can't read built-in.json", builtin>>}]
    ELSE LET has(repository) ==
                 \E a \in DOMAIN st.cache :
                     st.cache[a][ATTR_REPOSITORY] = repository
             r1 == IF has(REPOSITORY_CORE)
                   THEN DictSet(st.repos, REPOSITORY_CORE, BuiltinData(REPOSITORY_CORE))
                   ELSE st.repos
             r2 == IF has(REPOSITORY_LOCAL)
                   THEN DictSet(r1, REPOSITORY_LOCAL, BuiltinData(REPOSITORY_LOCAL))
                   ELSE r1
         IN  [st EXCEPT !.repos = r2]

\* extract_hash_from_path(path): the identifier of an external repository,
\* derived from its directory by a rule outside this class
extract_hash_from_path(element) == element.name

\* _read_git_repository(path) on one directory of the repositories root
read_git_repository(st, element) ==
    LET slug == extract_hash_from_path(element)
        path == "git/" \o element.name
        repository_info ==
            DictSet(RepositoryConfig(slug), ATTR_SLUG, slug)
    IN  CASE element.repository_json = "oserror" ->
                [st EXCEPT !.log = @ \cup
                    {<<"Can't read repository information", path>>}]
          [] element.repository_json = "decode" ->
                \* neither except clause catches json.JSONDecodeError
                [st EXCEPT !.raised = "JSONDecodeError"]
          [] element.repository_json = "schema" ->
                [st EXCEPT !.log = @ \cup {<<"Repository parse error", path>>}]
          [] OTHER ->
                read_addons_folder(
                    [st EXCEPT !.repos = DictSet(@, slug, repository_info)],
                    path, slug, element.files)

RECURSIVE ReadGitFrom(_, _, _)
ReadGitFrom(st, elements, i) ==
    IF i > Len(elements) \/ st.raised # NoError
    THEN st
    ELSE ReadGitFrom(IF elements[i].is_dir
                     THEN read_git_repository(st, elements[i])
                     ELSE st,
                     elements, i + 1)

\* The whole of read_data_from_repositories on the file system f: the
\* catalog and the registry start empty, then core, local, the built-in
\* records and the external repositories, until one step raises.
ScanResult(f) ==
    LET st1 == read_addons_folder(ScanStart, "core", REPOSITORY_CORE, f.core)
        st2 == IF st1.raised # NoError THEN st1
               ELSE read_addons_folder(st1, "local", REPOSITORY_LOCAL, f.local)
        st3 == IF st2.raised # NoError THEN st2
               ELSE set_builtin_repositories(st2, f.builtin)
    IN  ReadGitFrom(st3, f.git, 1)

----------------------------------------------------------------------------
(* The installed state. A store is the pair of maps [system, user]; the    *)
(* result of a handler on a store is the store it leaves, the exception it *)
(* raised (NoError when it returned) and whether it reached self.save().   *)

Store(system, user) == [system |-> system, user |-> user]

Returned(system, user) ==
    [system |-> system, user |-> user, raised |-> NoError, save |-> TRUE]

Raised(system, user, error) ==
    [system |-> system, user |-> user, raised |-> error, save |-> FALSE]

\* list_installed
list_installed(store) == DOMAIN store.system

\* A faulty set_addon_install: the user half is written first, the catalog
\* looked up after.
set_addon_install_user_first(store, addon, version) ==
    LET user == DictSet(store.user, addon,
                        [options |-> EmptyDict, version |-> version])
    IN  IF addon \notin DOMAIN addons_cache
        THEN Raised(store.system, user, "KeyError")
        ELSE Returned(DictSet(store.system, addon, deepcopy(addons_cache[addon])),
                      user)

\* set_addon_install(addon, version)
set_addon_install(store, addon, version) ==
    IF addon \notin DOMAIN addons_cache
    THEN Raised(store.system, store.user, "KeyError")
    ELSE Returned(DictSet(store.system, addon, deepcopy(addons_cache[addon])),
                  DictSet(store.user, addon,
                          [options |-> EmptyDict, version |-> version]))

\* A faulty set_addon_uninstall: the user half is left behind.
set_addon_uninstall_system_only(store, addon) ==
    Returned(DictPop(store.system, addon), store.user)

\* set_addon_uninstall(addon)
set_addon_uninstall(store, addon) ==
    Returned(DictPop(store.system, addon), DictPop(store.user, addon))

\* A faulty set_addon_update: the user half is made anew, as an install
\* makes it.
set_addon_update_as_install(store, addon, version) ==
    IF addon \notin DOMAIN addons_cache
    THEN Raised(store.system, store.user, "KeyError")
    ELSE LET system == DictSet(store.system, addon, deepcopy(addons_cache[addon]))
         IN  IF addon \notin DOMAIN store.user
             THEN Raised(system, store.user, "KeyError")
             ELSE Returned(system,
                           DictSet(store.user, addon,
                                   [options |-> EmptyDict, version |-> version]))

\* set_addon_update(addon, version): the system half is assigned before the
\* user half is looked up
set_addon_update(store, addon, version) ==
    IF addon \notin DOMAIN addons_cache
    THEN Raised(store.system, store.user, "KeyError")
    ELSE LET system == DictSet(store.system, addon, deepcopy(addons_cache[addon]))
         IN  IF addon \notin DOMAIN store.user
             THEN Raised(system, store.user, "KeyError")
             ELSE Returned(system,
                           [store.user EXCEPT ![addon] =
                                DictSet(@, ATTR_VERSION, version)])

\* set_options(addon, options)
set_options(store, addon, options) ==
    IF addon \notin DOMAIN store.user
    THEN Raised(store.system, store.user, "KeyError")
    ELSE Returned(store.system,
                  [store.user EXCEPT ![addon] =
                       DictSet(@, ATTR_OPTIONS, deepcopy(options))])

\* set_boot(addon, boot)
set_boot(store, addon, boot) ==
    IF addon \notin DOMAIN store.user
    THEN Raised(store.system, store.user, "KeyError")
    ELSE Returned(store.system,
                  [store.user EXCEPT ![addon] = DictSet(@, ATTR_BOOT, boot)])

\* One turn of the loop of merge_update_config, on one installed addon:
\* the versions compared are those of the system half and of the catalog.
MergeAddon(system, addon) ==
    IF addon \notin DOMAIN addons_cache
    THEN system
    ELSE LET cache == addons_cache[addon]
             data == system[addon]
         IN  IF data[ATTR_VERSION] = cache[ATTR_VERSION] /\ data # cache
             THEN DictSet(system, addon, deepcopy(cache))
             ELSE system

RECURSIVE MergeAll(_, _)
MergeAll(system, addons) ==
    IF addons = {}
    THEN system
    ELSE LET addon == CHOOSE a \in addons : TRUE
         IN  MergeAll(MergeAddon(system, addon), addons \ {addon})

\* A faulty merge_update_config: save() is called in the loop, once for
\* every system half overwritten.
merge_update_config_save_each(store) ==
    LET system == MergeAll(store.system, list_installed(store))
        overwritten == {a \in DOMAIN system : system[a] # store.system[a]}
    IN  [system |-> system, user |-> store.user, raised |-> NoError,
         save |-> overwritten # {}, saves |-> Cardinality(overwritten)]

\* merge_update_config(): have_change is set exactly when a turn assigned;
\* saves counts the calls of save()
merge_update_config(store) ==
    LET system == MergeAll(store.system, list_installed(store))
        have_change == system # store.system
    IN  [system |-> system, user |-> store.user, raised |-> NoError,
         save |-> have_change, saves |-> IF have_change THEN 1 ELSE 0]

\* What a read accessor gives: the value it returns, or the exception that
\* leaves it.
Value(value) == [raised |-> NoError, value |-> value]
Raises(error) == [raised |-> error, value |-> "none"]

\* get_boot(): the user half's boot when it has one, else the system half's
get_boot(store, addon) ==
    IF addon \notin DOMAIN store.user THEN Raises("KeyError")
    ELSE IF ATTR_BOOT \in DOMAIN store.user[addon]
         THEN Value(store.user[addon][ATTR_BOOT])
         ELSE IF addon \notin DOMAIN store.system
                   \/ ATTR_BOOT \notin DOMAIN store.system[addon]
              THEN Raises("KeyError")
              ELSE Value(store.system[addon][ATTR_BOOT])

\* list_startup(): the loop over the system halves; a KeyError of get_boot
\* leaves the method, a missing startup field is caught and the addon left
\* out.
list_startup(store, start_type) ==
    IF \E addon \in DOMAIN store.system :
           get_boot(store, addon).raised # NoError
    THEN Raises("KeyError")
    ELSE Value({addon \in DOMAIN store.system :
                   /\ get_boot(store, addon).value = BOOT_AUTO
                   /\ ATTR_STARTUP \in DOMAIN store.system[addon]
                   /\ store.system[addon][ATTR_STARTUP] = start_type})

\* get_options(): the system half's options, overridden key by key by the
\* user half's
get_options(store, addon) ==
    IF addon \notin DOMAIN store.system \/ addon \notin DOMAIN store.user
    THEN Raises("KeyError")
    ELSE Value(store.user[addon][ATTR_OPTIONS]
                   @@ store.system[addon][ATTR_OPTIONS])

\* A descriptive accessor that indexes: the field of the catalog entry when
\* the addon has one, else the field of the system half.
CatalogElseSystem(store, addon, attr) ==
    IF addon \in DOMAIN addons_cache
    THEN Value(addons_cache[addon][attr])
    ELSE IF addon \notin DOMAIN store.system
              \/ attr \notin DOMAIN store.system[addon]
         THEN Raises("KeyError")
         ELSE Value(store.system[addon][attr])

\* version_installed(): the version of the user half, None without one
version_installed(store, addon) ==
    DictGet(DictGet(store.user, addon, EmptyDict), ATTR_VERSION, None)

get_name(store, addon) == CatalogElseSystem(store, addon, ATTR_NAME)

get_description(store, addon) == CatalogElseSystem(store, addon, ATTR_DESCRIPTON)

get_repository(store, addon) == CatalogElseSystem(store, addon, ATTR_REPOSITORY)

\* A get_last_version that falls back to the version of the system half.
get_last_version_system_half(store, addon) ==
    CatalogElseSystem(store, addon, ATTR_VERSION)

\* get_last_version(): the version of the catalog entry, else the installed
\* version
get_last_version(store, addon) ==
    IF addon \in DOMAIN addons_cache
    THEN Value(addons_cache[addon][ATTR_VERSION])
    ELSE Value(version_installed(store, addon))

\* get_url(): as the others, with .get(): None where the entry has no url
get_url(store, addon) ==
    IF addon \in DOMAIN addons_cache
    THEN Value(DictGet(addons_cache[addon], ATTR_URL, None))
    ELSE IF addon \notin DOMAIN store.system
         THEN Raises("KeyError")
         ELSE Value(DictGet(store.system[addon], ATTR_URL, None))

get_arch(store, addon) == CatalogElseSystem(store, addon, ATTR_ARCH)

\* the option values, as JSON text, that int() accepts
IntTexts == {"1", "7", "80"}

\* One value against its type descriptor: str() takes every value, int()
\* the texts of integers.
Coerces(typ, value) ==
    IF typ = "int" THEN value \in IntTexts ELSE typ = "str"

\* validate_options(raw_schema)(options): TRUE when the validator returns,
\* FALSE when it raises vol.Invalid, naming a key the schema does not
\* describe or a value that is not of the type described.
validate_options(raw_schema, options) ==
    \A key \in DOMAIN options :
        /\ key \in DOMAIN raw_schema
        /\ Coerces(raw_schema[key], options[key])

\* get_schema(): the option types of the system half
get_schema(store, addon) ==
    IF addon \notin DOMAIN store.system
          \/ ATTR_SCHEMA \notin DOMAIN store.system[addon]
    THEN Raises("KeyError")
    ELSE Value(store.system[addon][ATTR_SCHEMA])

\* What write_addon_options leaves: the documents on disk, and the value
\* returned or the exception raised.
Written(files, raised, returned) ==
    [files |-> files, raised |-> raised, returned |-> returned]

\* write_json_file(path, data): the document is replaced and True returned,
\* or the write fails and False is returned
write_json_file(files, addon, data, written) ==
    IF written
    THEN Written(DictSet(files, addon, data), NoError, "True")
    ELSE Written(files, NoError, "False")

\* A faulty write_addon_options: the document is written before the
\* validator has run.
write_addon_options_write_first(store, files, addon, written) ==
    LET schema == get_schema(store, addon)
        options == get_options(store, addon)
    IN  IF schema.raised # NoError THEN Written(files, schema.raised, "none")
        ELSE IF options.raised # NoError THEN Written(files, options.raised, "none")
        ELSE LET w == write_json_file(files, addon, options.value, written)
             IN  IF validate_options(schema.value, options.value)
                 THEN w
                 ELSE Written(w.files, NoError, "False")

\* write_addon_options(): written tells whether write_json_file succeeds
write_addon_options(store, files, addon, written) ==
    LET schema == get_schema(store, addon)
        options == get_options(store, addon)
    IN  IF schema.raised # NoError THEN Written(files, schema.raised, "none")
        ELSE IF options.raised # NoError THEN Written(files, options.raised, "none")
        ELSE IF validate_options(schema.value, options.value)
             THEN write_json_file(files, addon, options.value, written)
             ELSE Written(files, NoError, "False")

\* A faulty submission: the options are stored without the validator.
submit_options_ungated(store, addon, options) ==
    set_options(store, addon, options)

\* The caller of set_options for options a user submits: the options are
\* validated against the schema of get_schema and stored when they pass.
submit_options(store, addon, options) ==
    LET schema == get_schema(store, addon)
    IN  IF schema.raised # NoError
        THEN Raised(store.system, store.user, schema.raised)
        ELSE IF validate_options(schema.value, options)
             THEN set_options(store, addon, options)
             ELSE Raised(store.system, store.user, "Invalid")

\* A faulty list_detached: the loop runs over the user halves.
list_detached_user_halves(store) ==
    {addon \in DOMAIN store.user : addon \notin DOMAIN addons_cache}

\* list_detached: the addons with a system half that the catalog lacks
list_detached(store) ==
    {addon \in DOMAIN store.system : addon \notin DOMAIN addons_cache}

\* list_all: the addons with a system half or a catalog entry
list_all(store) == DOMAIN store.system \cup DOMAIN addons_cache

\* A faulty save(): the document is written without the system section.
Document_user_section(system, user) == (USER :> user)

\* save(): the document written from the two maps
Document(system, user) == (USER :> user) @@ (SYSTEM :> system)

\* __init__: the two maps as the persisted document gives them
LoadedStore(document) ==
    Store(DictGet(document, SYSTEM, EmptyDict), DictGet(document, USER, EmptyDict))

----------------------------------------------------------------------------
(* The file systems and the arguments the calls are given.                 *)

\* an external repository directory
GitElement(name, is_dir, repository_json, files) ==
    [name |-> name, is_dir |-> is_dir, repository_json |-> repository_json,
     files |-> files]

FileSystem(core, local, builtin, git) ==
    [core |-> core, local |-> local, builtin |-> builtin, git |-> git]

EmptyFileSystem == FileSystem(<< >>, << >>, "ok", << >>)

\* The file systems of Spec: every file is valid; the core folder holds at
\* most one definition of slug a (revision 1 in any version, or revision 2
\* in the first version), and the external repository r1 at most one
\* definition of slug b.
StoreFileSystems ==
    {FileSystem(core, << >>, "ok", <<GitElement("r1", TRUE, "ok", files)>>) :
        core \in Folders({GoodFile(AddonConfig("a", v, 1)) : v \in Versions}
                             \cup {GoodFile(AddonConfig("a", "v1", 2))}, 1),
        files \in Folders({GoodFile(AddonConfig("b", "v1", 1))}, 1)}

\* The file systems of SpecScan: valid and invalid files of every kind in
\* the core folder, two definitions of one slug among them; a local folder;
\* built-in.json readable or not; up to two external repositories, the
\* first with a repository.json of every kind, or valid and without any
\* definition, or not a directory.
ScanFiles ==
    {BadFile(k) : k \in FileKinds \ {"ok"}}
        \cup {GoodFile(AddonConfig(s, "v1", 1)) : s \in Slugs}

ScanGitListings ==
    LET first == {GitElement("r1", TRUE, k, <<GoodFile(AddonConfig("b", "v1", 1))>>) :
                      k \in FileKinds}
                 \cup {GitElement("r1", FALSE, "oserror", << >>),
                       GitElement("r1", TRUE, "ok", << >>)}
        second == GitElement("r2", TRUE, "ok", <<GoodFile(AddonConfig("a", "v1", 1))>>)
    IN  {<< >>, <<second>>}
            \cup {<<e>> : e \in first} \cup {<<e, second>> : e \in first}

ScanFileSystems ==
    {FileSystem(core, local, builtin, git) :
        core \in Folders(ScanFiles, MaxFiles),
        local \in Folders({BadFile("schema"), GoodFile(AddonConfig("a", "v1", 1))}, 1),
        builtin \in {"ok", "oserror", "decode"},
        git \in ScanGitListings}

\* the addons the calls name: the two the catalog of Spec can hold
Addons == {AddonSlug(REPOSITORY_CORE, "a"), AddonSlug("r1", "b")}

\* the options a caller stores
OptionInputs == {[host |-> "mine"]}

\* the boot policies a caller stores
BootInputs == {"manual"}

----------------------------------------------------------------------------
(* The state after construction, and what every call leaves behind.        *)

\* the startup classes asked of list_startup: that of the definitions, and
\* another
StartTypes == {"application", "before"}

NoSnapshot == EmptyDict

\* __init__ on a persisted document that does not exist yet
Init ==
    /\ saved = EmptyDict
    /\ system_data = LoadedStore(saved).system
    /\ user_data = LoadedStore(saved).user
    /\ addons_cache = EmptyDict
    /\ repositories_data = EmptyDict
    /\ fs = EmptyFileSystem
    /\ options_files = EmptyDict
    /\ log = {}
    /\ lastOp = [op |-> "init", raised |-> NoError, save |-> FALSE]
    /\ pre = NoSnapshot
    /\ clean = Store(EmptyDict, EmptyDict)

StoreNow == Store(system_data, user_data)

\* A handler of the installed state has run with result r, and with result
\* c on the store the calls that returned had built.
Handled(r, c) ==
    /\ system_data' = r.system
    /\ user_data' = r.user
    /\ saved' = IF r.save THEN Document(r.system, r.user) ELSE saved
    /\ clean' = IF r.raised = NoError THEN Store(c.system, c.user) ELSE clean
    /\ log' = {}
    /\ UNCHANGED <<addons_cache, repositories_data, fs, options_files>>

----------------------------------------------------------------------------
(* The calls. *)

\* A faulty read_data_from_repositories: the system halves are the
\* catalog's own entries, so that a scan rewrites them.
read_data_from_repositories_shared(f) ==
    LET r == ScanResult(f)
    IN  /\ fs' = f
        /\ addons_cache' = r.cache
        /\ repositories_data' = r.repos
        /\ log' = r.log
        /\ lastOp' = [op |-> "scan", raised |-> r.raised, save |-> FALSE]
        /\ pre' = NoSnapshot
        /\ system_data' = [a \in DOMAIN system_data |->
                               IF a \in DOMAIN r.cache THEN r.cache[a]
                               ELSE system_data[a]]
        /\ UNCHANGED <<user_data, saved, clean, options_files>>

\* read_data_from_repositories() on the file system f
read_data_from_repositories(f) ==
    LET r == ScanResult(f)
    IN  /\ fs' = f
        /\ addons_cache' = r.cache
        /\ repositories_data' = r.repos
        /\ log' = r.log
        /\ lastOp' = [op |-> "scan", raised |-> r.raised, save |-> FALSE]
        /\ pre' = NoSnapshot
        /\ UNCHANGED <<system_data, user_data, saved, clean, options_files>>

Install(addon, version) ==
    LET r == set_addon_install(StoreNow, addon, version)
    IN  /\ Handled(r, set_addon_install(clean, addon, version))
        /\ lastOp' = [op |-> "install", addon |-> addon, version |-> version,
                      raised |-> r.raised, save |-> r.save]
        /\ pre' = [system |-> system_data, user |-> user_data, saved |-> saved]

\* undoes: the call before was the install of the same addon, and returned;
\* the snapshot taken before that install is then kept
Uninstall(addon) ==
    LET r == set_addon_uninstall(StoreNow, addon)
        undoes == /\ lastOp.op = "install"
                  /\ lastOp.raised = NoError
                  /\ lastOp.addon = addon
    IN  /\ Handled(r, set_addon_uninstall(clean, addon))
        /\ lastOp' = [op |-> "uninstall", addon |-> addon, undoes |-> undoes,
                      raised |-> r.raised, save |-> r.save]
        /\ pre' = IF undoes THEN pre ELSE NoSnapshot

Update(addon, version) ==
    LET r == set_addon_update(StoreNow, addon, version)
    IN  /\ Handled(r, set_addon_update(clean, addon, version))
        /\ lastOp' = [op |-> "update", addon |-> addon, version |-> version,
                      raised |-> r.raised, save |-> r.save]
        /\ pre' = NoSnapshot

SetOptions(addon, options) ==
    LET r == set_options(StoreNow, addon, options)
    IN  /\ Handled(r, set_options(clean, addon, options))
        /\ lastOp' = [op |-> "set_options", addon |-> addon,
                      raised |-> r.raised, save |-> r.save]
        /\ pre' = NoSnapshot

SetBoot(addon, boot) ==
    LET r == set_boot(StoreNow, addon, boot)
    IN  /\ Handled(r, set_boot(clean, addon, boot))
        /\ lastOp' = [op |-> "set_boot", addon |-> addon,
                      raised |-> r.raised, save |-> r.save]
        /\ pre' = NoSnapshot

Reconcile ==
    LET r == merge_update_config(StoreNow)
    IN  /\ Handled(r, merge_update_config(clean))
        /\ lastOp' = [op |-> "reconcile", raised |-> r.raised, save |-> r.save,
                      saves |-> r.saves]
        /\ pre' = NoSnapshot

Next ==
    \/ \E f \in StoreFileSystems : read_data_from_repositories(f)
    \/ \E addon \in Addons, version \in Versions : Install(addon, version)
    \/ \E addon \in Addons : Uninstall(addon)
    \/ \E addon \in Addons, version \in Versions : Update(addon, version)
    \/ \E addon \in Addons, options \in OptionInputs : SetOptions(addon, options)
    \/ \E addon \in Addons, boot \in BootInputs : SetBoot(addon, boot)
    \/ Reconcile

Spec == Init /\ [][Next]_vars

\* The scanner alone, on every file system of ScanFileSystems: the file
\* system is what it is when the store is constructed, and a scan reads it.
InitScan ==
    /\ saved = EmptyDict
    /\ system_data = LoadedStore(saved).system
    /\ user_data = LoadedStore(saved).user
    /\ addons_cache = EmptyDict
    /\ repositories_data = EmptyDict
    /\ fs \in ScanFileSystems
    /\ options_files = EmptyDict
    /\ log = {}
    /\ lastOp = [op |-> "init", raised |-> NoError, save |-> FALSE]
    /\ pre = NoSnapshot
    /\ clean = Store(EmptyDict, EmptyDict)

NextScan == read_data_from_repositories(fs)

SpecScan == InitScan /\ [][NextScan]_vars

----------------------------------------------------------------------------
(* Reconciles of two addons whose definitions both change.                 *)

MergeVersion == "v1"

\* the definition of a in the core folder and that of b in the repository
\* r1, each absent or in either revision
MergeFileSystems ==
    LET definitions(slug) ==
            {<< >>} \cup {<<GoodFile(AddonConfig(slug, MergeVersion, rev))>> :
                             rev \in {1, 2}}
    IN  {FileSystem(core, << >>, "ok", <<GitElement("r1", TRUE, "ok", files)>>) :
            core \in definitions("a"), files \in definitions("b")}

NextMerge ==
    \/ \E f \in MergeFileSystems : read_data_from_repositories(f)
    \/ \E addon \in Addons : Install(addon, MergeVersion)
    \/ \E addon \in Addons : Update(addon, MergeVersion)
    \/ Reconcile

SpecMerge == Init /\ [][NextMerge]_vars

----------------------------------------------------------------------------
(* The options of one addon: submitted, validated, stored and written.     *)

OptionsAddon == AddonSlug(REPOSITORY_CORE, "a")

OptionsVersion == "v1"

\* the core folder empty, or holding the definition of a in either revision
OptionsFileSystems ==
    {FileSystem(core, << >>, "ok", << >>) :
        core \in {<< >>} \cup {<<GoodFile(AddonConfig("a", OptionsVersion, rev))>> :
                                  rev \in {1, 2}}}

\* what a user submits: values that pass both revisions of the schema, and
\* a level that passes as str and fails as int
OptionSubmissions == {[host |-> "mine"], [level |-> "7"], [level |-> "high"]}

\* write_addon_options(addon)
WriteAddonOptions(addon, written) ==
    LET r == write_addon_options(StoreNow, options_files, addon, written)
        schema == get_schema(StoreNow, addon)
        options == get_options(StoreNow, addon)
        invalid == /\ schema.raised = NoError
                   /\ options.raised = NoError
                   /\ ~validate_options(schema.value, options.value)
    IN  /\ options_files' = r.files
        /\ log' = IF invalid THEN {<<"Addon have wrong options", addon>>} ELSE {}
        /\ lastOp' = [op |-> "write_options", addon |-> addon,
                      raised |-> r.raised, returned |-> r.returned,
                      save |-> FALSE]
        /\ pre' = NoSnapshot
        /\ UNCHANGED <<system_data, user_data, saved, addons_cache,
                       repositories_data, fs, clean>>

\* the options of a request, through the validator, into set_options
SubmitOptions(addon, options) ==
    LET r == submit_options(StoreNow, addon, options)
    IN  /\ Handled(r, submit_options(clean, addon, options))
        /\ lastOp' = [op |-> "submit_options", addon |-> addon,
                      options |-> options, raised |-> r.raised, save |-> r.save]
        /\ pre' = NoSnapshot

NextOptions ==
    \/ \E f \in OptionsFileSystems : read_data_from_repositories(f)
    \/ Install(OptionsAddon, OptionsVersion)
    \/ Update(OptionsAddon, OptionsVersion)
    \/ Reconcile
    \/ \E options \in OptionSubmissions : SubmitOptions(OptionsAddon, options)
    \/ \E written \in BOOLEAN : WriteAddonOptions(OptionsAddon, written)

SpecOptions == Init /\ [][NextOptions]_vars

----------------------------------------------------------------------------

(* Properties of the installed state, under Spec.                          *)

\* C1: in every state, whatever calls came before and whether they raised
\* or returned, the addons with a system half are the addons with a user
\* half.
C1_HalvesTogether == DOMAIN system_data = DOMAIN user_data

\* C2: a reconcile (merge_update_config) leaves the system half of every
\* installed addon unchanged whose user half's version differs from the
\* version of its catalog entry.
C2_MergeOnlySameUserVersion ==
    [][lastOp'.op = "reconcile" =>
        \A a \in DOMAIN system_data :
            (/\ a \in DOMAIN user_data
             /\ a \in DOMAIN addons_cache
             /\ user_data[a][ATTR_VERSION] # addons_cache[a][ATTR_VERSION])
            => /\ a \in DOMAIN system_data'
               /\ system_data'[a] = system_data[a]]_vars

\* C3: an install or an update of an addon that is not in the catalog raises
\* and leaves the two maps and the persisted document as they were, without
\* a save.
C3_AbsentFromCatalogNoChange ==
    [][(/\ lastOp'.op \in {"install", "update"}
        /\ lastOp'.addon \notin DOMAIN addons_cache)
       => /\ lastOp'.raised # NoError
          /\ ~lastOp'.save
          /\ system_data' = system_data
          /\ user_data' = user_data
          /\ saved' = saved]_vars

\* C3's case: an update of an installed addon that the catalog has lost has
\* raised, with the addon still installed.
C3_Witness ==
    /\ lastOp.op = "update"
    /\ lastOp.raised # NoError
    /\ lastOp.addon \notin DOMAIN addons_cache
    /\ lastOp.addon \in DOMAIN user_data
    /\ lastOp.addon \in DOMAIN system_data

\* C4: every document a call persists holds exactly what the calls that
\* returned normally have built, and nothing a call that raised has changed.
C4_PersistedOnlySuccessful ==
    lastOp.save => saved = Document(clean.system, clean.user)

\* C5: an update of an addon that has both halves and is in the catalog
\* returns, keeps the user half's options and boot override (set or not
\* set) as they were, sets its version to the one given, makes the system
\* half the catalog entry, persists the two maps, and leaves the halves of
\* every other addon as they were.
C5_UpdateKeepsUserChoices ==
    [][(/\ lastOp'.op = "update"
        /\ lastOp'.addon \in DOMAIN user_data
        /\ lastOp'.addon \in DOMAIN system_data
        /\ lastOp'.addon \in DOMAIN addons_cache)
       => LET a == lastOp'.addon
          IN  /\ lastOp'.raised = NoError
              /\ a \in DOMAIN user_data' /\ a \in DOMAIN system_data'
              /\ user_data'[a][ATTR_OPTIONS] = user_data[a][ATTR_OPTIONS]
              /\ (ATTR_BOOT \in DOMAIN user_data'[a])
                    = (ATTR_BOOT \in DOMAIN user_data[a])
              /\ ATTR_BOOT \in DOMAIN user_data[a]
                    => user_data'[a][ATTR_BOOT] = user_data[a][ATTR_BOOT]
              /\ user_data'[a][ATTR_VERSION] = lastOp'.version
              /\ system_data'[a] = addons_cache[a]
              /\ lastOp'.save
              /\ saved' = Document(system_data', user_data')
              /\ DictPop(system_data', a) = DictPop(system_data, a)
              /\ DictPop(user_data', a) = DictPop(user_data, a)]_vars

\* C5's case: an update has returned on an addon that keeps stored options
\* and a boot override, took a version and a definition other than the ones
\* it had, and another addon is installed.
C5_Witness ==
    /\ lastOp.op = "update"
    /\ lastOp.raised = NoError
    /\ user_data[lastOp.addon][ATTR_OPTIONS] # EmptyDict
    /\ ATTR_BOOT \in DOMAIN user_data[lastOp.addon]
    /\ DictGet(saved, SYSTEM, EmptyDict) = system_data
    /\ \E b \in DOMAIN user_data : b # lastOp.addon
    /\ Cardinality({user_data[b][ATTR_VERSION] : b \in DOMAIN user_data}) = 2

\* one half of addon a in a map: <<the half>>, or << >> when a has none
Half(map, a) == IF a \in DOMAIN map THEN <<map[a]>> ELSE << >>

\* the halves of addon a in the persisted document
SavedHalves(document, a) ==
    <<Half(DictGet(document, SYSTEM, EmptyDict), a),
      Half(DictGet(document, USER, EmptyDict), a)>>

\* C6 as stated: an install that returned, followed by the uninstall of the
\* same addon, leaves every addon's two halves and its entries in the
\* persisted document as they were before the install.
C6_InstallUninstallRestores ==
    (lastOp.op = "uninstall" /\ lastOp.undoes)
        => /\ system_data = pre.system
           /\ user_data = pre.user
           /\ \A a \in Addons : SavedHalves(saved, a) = SavedHalves(pre.saved, a)

\* C6 amended: when the addon had neither half before the install, the
\* install followed by the uninstall leaves the two maps as they were before
\* the install, the addon again without an entry in the persisted document
\* as before, and the document equal to the two maps.
C6_InstallUninstallRestoresWhenAbsent ==
    (/\ lastOp.op = "uninstall"
     /\ lastOp.undoes
     /\ lastOp.addon \notin DOMAIN pre.system
     /\ lastOp.addon \notin DOMAIN pre.user)
        => /\ system_data = pre.system
           /\ user_data = pre.user
           /\ SavedHalves(saved, lastOp.addon) = <<<< >>, << >>>>
           /\ SavedHalves(pre.saved, lastOp.addon) = <<<< >>, << >>>>
           /\ saved = Document(pre.system, pre.user)

\* C6's case: an addon that was not installed has been installed and then
\* uninstalled while another addon is installed.
C6_Witness ==
    /\ lastOp.op = "uninstall"
    /\ lastOp.undoes
    /\ lastOp.addon \notin DOMAIN pre.system
    /\ lastOp.addon \notin DOMAIN pre.user
    /\ \E b \in DOMAIN user_data : b \in DOMAIN system_data

\* C7: a scan leaves the two maps and the persisted document as they were,
\* and a system half is made or changed by install, update and reconcile
\* steps only.
C7_ScanLeavesStore ==
    [][/\ lastOp'.op = "scan"
            => /\ system_data' = system_data
               /\ user_data' = user_data
               /\ saved' = saved
       /\ \A a \in DOMAIN system_data' :
            (a \notin DOMAIN system_data \/ system_data'[a] # system_data[a])
                => lastOp'.op \in {"install", "update", "reconcile"}]_vars

\* C7's case: after a scan the catalog holds, for an installed addon, a
\* definition of the installed version that differs from the system half.
C7_Witness ==
    /\ lastOp.op = "scan"
    /\ \E a \in DOMAIN system_data :
        /\ a \in DOMAIN user_data
        /\ a \in DOMAIN addons_cache
        /\ addons_cache[a] # system_data[a]
        /\ addons_cache[a][ATTR_VERSION] = system_data[a][ATTR_VERSION]

----------------------------------------------------------------------------
(* Properties of the scan, under SpecScan.                                 *)

\* the valid definition files under the scanned roots: the core folder, the
\* local folder and every directory of the repositories root
ValidFiles(f) ==
    {<<REPOSITORY_CORE, i>> : i \in {i \in DOMAIN f.core : f.core[i].kind = "ok"}}
        \cup {<<REPOSITORY_LOCAL, i>> :
                 i \in {i \in DOMAIN f.local : f.local[i].kind = "ok"}}
        \cup UNION {{<<f.git[j].name, i>> :
                        i \in {i \in DOMAIN f.git[j].files :
                                  f.git[j].files[i].kind = "ok"}} :
                    j \in {j \in DOMAIN f.git : f.git[j].is_dir}}

\* The files a scan opens, in the order it opens them: a definition file is
\* an item with its repository tag and its declared slug, a repository.json
\* an item of its own, followed by the definition files of its directory
\* when it is valid.
DefinitionItems(repository, files) ==
    [i \in 1..Len(files) |->
        [repository |-> repository, kind |-> files[i].kind, definition |-> TRUE,
         slug |-> IF files[i].kind = "ok" THEN files[i].content[ATTR_SLUG] ELSE ""]]

RECURSIVE GitItems(_)
GitItems(elements) ==
    IF elements = << >>
    THEN << >>
    ELSE LET e == Head(elements)
             own == IF ~e.is_dir
                    THEN << >>
                    ELSE <<[repository |-> e.name, kind |-> e.repository_json,
                            definition |-> FALSE, slug |-> ""]>>
                         \o (IF e.repository_json = "ok"
                             THEN DefinitionItems(e.name, e.files)
                             ELSE << >>)
         IN  own \o GitItems(Tail(elements))

ScanOrder(f) ==
    DefinitionItems(REPOSITORY_CORE, f.core)
        \o DefinitionItems(REPOSITORY_LOCAL, f.local)
        \o GitItems(f.git)

\* the qualified slugs of the valid definition files among the first n items
QualifiedSlugs(items, n) ==
    {AddonSlug(items[i].repository, items[i].slug) :
        i \in {i \in 1..n : items[i].definition /\ items[i].kind = "ok"}}

\* the number of items before the first one that is not JSON
BeforeNotJson(items) ==
    IF \E i \in DOMAIN items : items[i].kind = "decode"
    THEN (CHOOSE i \in DOMAIN items :
             /\ items[i].kind = "decode"
             /\ \A k \in 1..(i - 1) : items[k].kind # "decode") - 1
    ELSE Len(items)

\* C8 as stated: after a scan the catalog has as many entries as there are
\* valid definition files under the scanned roots.
C8_CatalogSizeIsValidFileCount ==
    lastOp.op = "scan"
        => Cardinality(DOMAIN addons_cache) = Cardinality(ValidFiles(fs))

\* C8 amended: after a scan the catalog holds exactly one entry for every
\* distinct qualified slug among the valid definition files the scan read
\* (the core folder, the local folder and each external directory with a
\* valid repository.json, up to the first file that is not JSON), so that
\* its size is the number of those qualified slugs.
C8_CatalogIsQualifiedSlugsRead ==
    lastOp.op = "scan"
        => LET items == ScanOrder(fs)
               slugs == QualifiedSlugs(items, BeforeNotJson(items))
           IN  /\ DOMAIN addons_cache = slugs
               /\ Cardinality(DOMAIN addons_cache) = Cardinality(slugs)

\* C8's case: a scan that ran to its end, logged warnings for invalid files,
\* and built a catalog of three entries from more than three valid files.
C8_Witness ==
    /\ lastOp.op = "scan"
    /\ lastOp.raised = NoError
    /\ \E w \in log : w[1] = "Can't read"
    /\ \E w \in log : w[1] = "Repository parse error"
    /\ Cardinality(DOMAIN addons_cache) = 3
    /\ Cardinality(ValidFiles(fs)) > 3

\* C9: a scan of a file system whose repository.json files are all JSON
\* runs to its end whatever definition files are unreadable, not JSON or
\* invalid: every valid definition file of the core folder, of the local
\* folder and of the external directories with a valid repository.json has
\* its qualified slug in the catalog, and every such directory its record.
C9_BadFileSkippedScanCompletes ==
    (/\ lastOp.op = "scan"
     /\ \A j \in DOMAIN fs.git : fs.git[j].repository_json # "decode")
        => LET items == ScanOrder(fs)
           IN  /\ lastOp.raised = NoError
               /\ QualifiedSlugs(items, Len(items)) \subseteq DOMAIN addons_cache
               /\ \A j \in DOMAIN fs.git :
                    (fs.git[j].is_dir /\ fs.git[j].repository_json = "ok")
                        => fs.git[j].name \in DOMAIN repositories_data

\* C10: after a scan of a file system whose definition files are all JSON,
\* an external directory whose repository.json is missing, not JSON or
\* invalid has no addon in the catalog and no record in the registry, a
\* warning names it, and every other external directory with a valid
\* repository.json has its record and its valid definitions in the catalog.
C10_BadRepositoryConfigSkipsRepository ==
    (/\ lastOp.op = "scan"
     /\ \A i \in DOMAIN ScanOrder(fs) :
            ScanOrder(fs)[i].definition => ScanOrder(fs)[i].kind # "decode")
        => \A j \in DOMAIN fs.git :
            (fs.git[j].is_dir /\ fs.git[j].repository_json # "ok")
                => /\ \A a \in DOMAIN addons_cache :
                        addons_cache[a][ATTR_REPOSITORY] # fs.git[j].name
                   /\ fs.git[j].name \notin DOMAIN repositories_data
                   /\ \E w \in log : w[2] = "git/" \o fs.git[j].name
                   /\ \A k \in DOMAIN fs.git \ {j} :
                        (fs.git[k].is_dir /\ fs.git[k].repository_json = "ok")
                            => /\ fs.git[k].name \in DOMAIN repositories_data
                               /\ QualifiedSlugs(DefinitionItems(fs.git[k].name,
                                                                 fs.git[k].files),
                                                 Len(fs.git[k].files))
                                      \subseteq DOMAIN addons_cache

\* the repositories with an entry in the catalog
Contributors == {addons_cache[a][ATTR_REPOSITORY] : a \in DOMAIN addons_cache}

\* the external directories of the file system f
ExternalNames(f) == {f.git[j].name : j \in {j \in DOMAIN f.git : f.git[j].is_dir}}

\* C11 as stated: after a scan that ran to its end, a repository (core,
\* local or an external directory) has a record in the registry if and only
\* if an entry of the catalog carries its tag.
C11_RecordIffContributed ==
    (lastOp.op = "scan" /\ lastOp.raised = NoError)
        => \A r \in {REPOSITORY_CORE, REPOSITORY_LOCAL} \cup ExternalNames(fs) :
                (r \in DOMAIN repositories_data) <=> (r \in Contributors)

\* C11 amended: after a scan the registry holds a record for a built-in tag
\* exactly when the scan got past the core and local folders, built-in.json
\* was readable and an entry of the catalog carries the tag; for an external
\* directory exactly when the scan read its repository.json and found it
\* valid, with or without definitions; and no other record. Every external
\* repository with an entry in the catalog has its record.
C11_RegistryAfterScan ==
    lastOp.op = "scan"
        => LET items == ScanOrder(fs)
               n == BeforeNotJson(items)
               reached == \A i \in 1..(Len(fs.core) + Len(fs.local)) :
                              items[i].kind # "decode"
               builtin == {t \in {REPOSITORY_CORE, REPOSITORY_LOCAL} :
                              /\ reached
                              /\ fs.builtin = "ok"
                              /\ t \in Contributors}
               external == {items[i].repository :
                               i \in {i \in 1..n : /\ ~items[i].definition
                                                   /\ items[i].kind = "ok"}}
           IN  /\ DOMAIN repositories_data = builtin \cup external
               /\ (Contributors \ {REPOSITORY_CORE, REPOSITORY_LOCAL})
                      \subseteq DOMAIN repositories_data

\* C11's case: a scan ran to its end and left a record for core, which
\* contributed, a record for r2, which contributed, and a record for r1,
\* which holds no definition.
C11_Witness ==
    /\ lastOp.op = "scan"
    /\ lastOp.raised = NoError
    /\ {REPOSITORY_CORE, "r1", "r2"} \subseteq DOMAIN repositories_data
    /\ REPOSITORY_LOCAL \notin DOMAIN repositories_data
    /\ {REPOSITORY_CORE, "r2"} \subseteq Contributors
    /\ "r1" \notin Contributors

\* C12: a reconcile (merge_update_config) saves nothing when the user half
\* of every installed addon carries a version other than that of the addon's
\* catalog entry (the addons with a system half being those with a user
\* half).
C12_NoPersistWhenUserVersionsDiffer ==
    [][(/\ lastOp'.op = "reconcile"
        /\ DOMAIN system_data = DOMAIN user_data
        /\ \A a \in DOMAIN user_data :
              a \in DOMAIN addons_cache
                  => user_data[a][ATTR_VERSION] # addons_cache[a][ATTR_VERSION])
       => /\ ~lastOp'.save
          /\ saved' = saved]_vars

\* C13: in every state, list_startup of a startup class raises nothing and
\* returns exactly the installed addons whose boot policy (that of the user
\* half if it has one, else that of the system half) is "auto" and whose
\* system half has that startup class.
C13_ListStartupNeverRaises ==
    \A start_type \in StartTypes :
        LET r == list_startup(StoreNow, start_type)
        IN  /\ r.raised = NoError
            /\ r.value =
                 {a \in DOMAIN system_data :
                    /\ \/ /\ a \in DOMAIN user_data
                          /\ ATTR_BOOT \in DOMAIN user_data[a]
                          /\ user_data[a][ATTR_BOOT] = BOOT_AUTO
                       \/ /\ a \in DOMAIN user_data => ATTR_BOOT \notin DOMAIN user_data[a]
                          /\ system_data[a][ATTR_BOOT] = BOOT_AUTO
                    /\ ATTR_STARTUP \in DOMAIN system_data[a]
                    /\ system_data[a][ATTR_STARTUP] = start_type}

\* the options of an addon's half, as a map
OptionsOf(map, a) == map[a][ATTR_OPTIONS]

\* C14: for every installed addon, get_options returns the merge of the
\* options of the two halves: its keys are the keys of either map, a key of
\* the user half's options has the user's value and any other key the system
\* half's default.
C14_GetOptionsMergesKeyByKey ==
    \A a \in list_installed(StoreNow) :
        LET r == get_options(StoreNow, a)
        IN  /\ r.raised = NoError
            /\ DOMAIN r.value = DOMAIN OptionsOf(system_data, a)
                                    \cup DOMAIN OptionsOf(user_data, a)
            /\ \A k \in DOMAIN r.value :
                  r.value[k] = IF k \in DOMAIN OptionsOf(user_data, a)
                               THEN OptionsOf(user_data, a)[k]
                               ELSE OptionsOf(system_data, a)[k]

\* the slugs the descriptive accessors are asked about: those in the catalog
\* and those with a system half
Described == DOMAIN addons_cache \cup DOMAIN system_data

\* the record the descriptive accessors read when all of them prefer the
\* catalog and fall back to the system half
Preferred(a) == IF a \in DOMAIN addons_cache THEN addons_cache[a] ELSE system_data[a]

\* what the accessors other than that of the latest version return
C15_FiveAccessorsPreferCatalog ==
    \A a \in Described :
        /\ get_name(StoreNow, a) = Value(Preferred(a)[ATTR_NAME])
        /\ get_description(StoreNow, a) = Value(Preferred(a)[ATTR_DESCRIPTON])
        /\ get_repository(StoreNow, a) = Value(Preferred(a)[ATTR_REPOSITORY])
        /\ get_arch(StoreNow, a) = Value(Preferred(a)[ATTR_ARCH])
        /\ get_url(StoreNow, a) =
              Value(IF ATTR_URL \in DOMAIN Preferred(a)
                    THEN Preferred(a)[ATTR_URL] ELSE None)

\* C15 as stated: every descriptive accessor (name, description, repository,
\* latest version, url, architectures) returns the field of the catalog
\* entry when the slug is in the catalog and else the field of the system
\* half; for a detached installed addon the latest version returned is the
\* system half's version. Stated for the states where every system half has
\* its user half.
C15_AccessorsPreferCatalogElseSystem ==
    DOMAIN system_data = DOMAIN user_data
        => /\ C15_FiveAccessorsPreferCatalog
           /\ \A a \in Described :
                 get_last_version(StoreNow, a) = Value(Preferred(a)[ATTR_VERSION])

\* C15 amended: name, description, repository, url and architectures return
\* the field of the catalog entry when the slug is in the catalog and else
\* the field of the system half (url: None where the record has none); the
\* latest version is the catalog entry's version when the slug is in the
\* catalog and else the version of the user half, None when the addon has
\* no user half.
C15_LastVersionFallsBackToUserHalf ==
    /\ C15_FiveAccessorsPreferCatalog
    /\ \A a \in Described :
          get_last_version(StoreNow, a) =
              Value(IF a \in DOMAIN addons_cache
                    THEN addons_cache[a][ATTR_VERSION]
                    ELSE IF a \in DOMAIN user_data
                         THEN user_data[a][ATTR_VERSION]
                         ELSE None)

\* C15's case: a detached installed addon whose user half carries another
\* version than its system half, while another installed addon is in the
\* catalog.
C15_Witness ==
    \E a \in DOMAIN system_data \ DOMAIN addons_cache :
        /\ a \in DOMAIN user_data
        /\ user_data[a][ATTR_VERSION] # system_data[a][ATTR_VERSION]
        /\ get_last_version(StoreNow, a) = Value(user_data[a][ATTR_VERSION])
        /\ get_name(StoreNow, a) = Value(system_data[a][ATTR_NAME])
        /\ \E b \in DOMAIN system_data \cap DOMAIN addons_cache :
              get_name(StoreNow, b) = Value(addons_cache[b][ATTR_NAME])

\* the addons that are detached after the step
DetachedNext ==
    {a \in DOMAIN system_data' : a \notin DOMAIN addons_cache'}

\* C18: in every state list_detached is the set of the installed addons that
\* the catalog lacks, all of them addons list_all knows. In every step, for
\* an addon a that is detached before it: a scan or a reconcile leaves a
\* installed and its two halves as they were; an update (or an install) of
\* a raises and changes nothing; and, a staying installed, a is no longer
\* detached after the step exactly when the step is a scan whose catalog
\* has an entry for a.
C18_DetachedUntilScanBringsBack ==
    /\ [](/\ list_detached(StoreNow) = list_installed(StoreNow) \ DOMAIN addons_cache
          /\ list_detached(StoreNow) \subseteq list_all(StoreNow))
    /\ [][\A a \in list_detached(StoreNow) :
            /\ lastOp'.op \in {"scan", "reconcile"}
                  => /\ a \in DOMAIN system_data'
                     /\ system_data'[a] = system_data[a]
                     /\ Half(user_data', a) = Half(user_data, a)
            /\ (lastOp'.op \in {"update", "install"} /\ lastOp'.addon = a)
                  => /\ lastOp'.raised # NoError
                     /\ ~lastOp'.save
                     /\ system_data' = system_data
                     /\ user_data' = user_data
                     /\ saved' = saved
            /\ a \in DOMAIN system_data'
                  => (a \notin DetachedNext
                        <=> (lastOp'.op = "scan" /\ a \in DOMAIN addons_cache'))]_vars

\* C18's case: after a scan, one installed addon is detached, and another,
\* with both halves, has a catalog entry that differs from its system half.
C18_Witness ==
    /\ lastOp.op = "scan"
    /\ \E a \in DOMAIN system_data \cap DOMAIN user_data :
          /\ a \in DOMAIN addons_cache
          /\ a \notin list_detached(StoreNow)
          /\ addons_cache[a] # system_data[a]
    /\ \E b \in DOMAIN system_data : list_detached(StoreNow) = {b}

\* the last call was one that persists: an install, uninstall, update,
\* set_options or set_boot that returned, or a reconcile that saved
Persisting ==
    \/ /\ lastOp.op \in {"install", "uninstall", "update", "set_options", "set_boot"}
       /\ lastOp.raised = NoError
    \/ /\ lastOp.op = "reconcile"
       /\ lastOp.save

\* C20: right after every call that persists, the call has saved, and the
\* persisted document has exactly the two sections user and system, which
\* are the whole in-memory maps of the user halves and of the system halves.
C20_PersistIsWholeState ==
    Persisting
        => /\ lastOp.save
           /\ DOMAIN saved = {USER, SYSTEM}
           /\ saved[USER] = user_data
           /\ saved[SYSTEM] = system_data
           /\ DOMAIN saved[USER] \cup DOMAIN saved[SYSTEM] \subseteq Addons

\* C20's case: a set_boot has returned while two addons are installed, one
\* of them keeping options a user stored, and the document holds both.
C20_Witness ==
    /\ lastOp.op = "set_boot"
    /\ lastOp.raised = NoError
    /\ Cardinality(DOMAIN user_data) = 2
    /\ Cardinality(DOMAIN system_data) = 2
    /\ \E a \in DOMAIN user_data : user_data[a][ATTR_OPTIONS] # EmptyDict
    /\ saved = (USER :> user_data) @@ (SYSTEM :> system_data)

----------------------------------------------------------------------------
(* Properties of the reconcile, under SpecMerge.                           *)

\* the installed addons whose system half the step overwrote
Overwritten ==
    {a \in DOMAIN system_data : a \in DOMAIN system_data'
                                   /\ system_data'[a] # system_data[a]}

\* C19: a reconcile (merge_update_config) calls save() once, on the maps as
\* the whole loop left them, if it overwrote at least one system half, and
\* not at all if it overwrote none; it leaves every user half, and the set
\* of the installed addons, as they were; and a reconcile that follows a
\* reconcile directly overwrites nothing and saves nothing.
C19_ReconcilePersistsOnce ==
    [][lastOp'.op = "reconcile" =>
        /\ lastOp'.raised = NoError
        /\ user_data' = user_data
        /\ DOMAIN system_data' = DOMAIN system_data
        /\ Overwritten # {}
              => /\ lastOp'.saves = 1
                 /\ lastOp'.save
                 /\ saved' = Document(system_data', user_data')
        /\ Overwritten = {}
              => /\ lastOp'.saves = 0
                 /\ ~lastOp'.save
                 /\ saved' = saved
        /\ lastOp.op = "reconcile"
              => /\ Overwritten = {}
                 /\ lastOp'.saves = 0]_vars

\* C19's case: a reconcile has saved once, and two addons are installed
\* whose system halves are the changed definitions (rev 2) of the catalog,
\* as the document saved has them.
C19_Witness ==
    /\ lastOp.op = "reconcile"
    /\ lastOp.saves = 1
    /\ Cardinality(DOMAIN system_data \cap DOMAIN user_data) = 2
    /\ \A a \in DOMAIN system_data :
          /\ a \in DOMAIN addons_cache
          /\ system_data[a] = addons_cache[a]
          /\ system_data[a][ATTR_BOOT] = "manual"
    /\ DictGet(saved, SYSTEM, EmptyDict) = system_data

----------------------------------------------------------------------------
(* Properties of the options, under SpecOptions.                           *)

\* the merged options of addon a pass the validator of its system half
MergedValid(a) ==
    /\ a \in DOMAIN system_data \cap DOMAIN user_data
    /\ validate_options(system_data[a][ATTR_SCHEMA],
                        user_data[a][ATTR_OPTIONS] @@ system_data[a][ATTR_OPTIONS])

\* C16: write_addon_options changes the options document of an addon only
\* when the merged options of its two halves have passed the validator of
\* the system half's schema, and the document written is those options; when
\* they fail the validator it returns False and leaves the document as it
\* was; in every case the two maps and the persisted document stay as they
\* were.
C16_WriteOnlyAfterValidation ==
    [][lastOp'.op = "write_options" =>
        LET a == lastOp'.addon
        IN  /\ system_data' = system_data
            /\ user_data' = user_data
            /\ saved' = saved
            /\ options_files' # options_files
                  => /\ MergedValid(a)
                     /\ lastOp'.returned = "True"
                     /\ options_files' =
                          DictSet(options_files, a,
                                  user_data[a][ATTR_OPTIONS]
                                      @@ system_data[a][ATTR_OPTIONS])
            /\ (a \in DOMAIN system_data \cap DOMAIN user_data /\ ~MergedValid(a))
                  => /\ lastOp'.raised = NoError
                     /\ lastOp'.returned = "False"
                     /\ options_files' = options_files]_vars

\* C16's case: write_addon_options has returned False on options that fail
\* the validator, for an addon whose document had been written before and
\* is still the one written then.
C16_Witness ==
    /\ lastOp.op = "write_options"
    /\ lastOp.returned = "False"
    /\ lastOp.addon \in DOMAIN system_data \cap DOMAIN user_data
    /\ ~MergedValid(lastOp.addon)
    /\ lastOp.addon \in DOMAIN options_files
    /\ validate_options(system_data[lastOp.addon][ATTR_SCHEMA],
                        options_files[lastOp.addon])

====
